---- MODULE Spec2Model ----
(***************************************************************************)
(* BCI-tests: the image catalog built by bci_tester/data.py at import time *)
(* and the verification rules applied by tests/test_base.py.               *)
(*                                                                         *)
(* Spec      the module body of bci_tester/data.py, statement by statement *)
(* TestSpec  one run of a test function of tests/test_base.py              *)
(*                                                                         *)
(* Python strings are TLA+ strings; str + str is \o, slicing is SubSeq.    *)
(* An optional string (os.getenv without default) is <<>> for None and     *)
(* <<s>> for the string s.                                                 *)
(***************************************************************************)
EXTENDS Integers, Sequences, FiniteSets, TLC

VARIABLES
    \* ---- bci_tester/data.py -------------------------------------------
    environ,            \* os.environ: OS_VERSION, OS_PRETTY_NAME, BCI_DEVEL_REPO
    arch,               \* LOCALHOST.system_info.arch
    DOCKER_SELECTED,    \* bci_tester.runtime_choice.DOCKER_SELECTED
    pc,                 \* the statement of data.py to execute next
    OS_VERSION,         \* module globals of data.py; "" / 0 / <<>> while unbound
    OS_MAJOR_VERSION,
    OS_SP_VERSION,
    OS_PRETTY_NAME,
    BASE_URL,
    BCI_DEVEL_REPO,
    containers,         \* global name -> descriptor, for the names bound so far
    groups,             \* global name -> list of descriptors, likewise
    \* ---- tests/test_base.py -------------------------------------------
    test,               \* the test function being run
    tpc,                \* its position
    t                   \* its inputs and locals

vars == <<environ, arch, DOCKER_SELECTED, pc, OS_VERSION, OS_MAJOR_VERSION,
          OS_SP_VERSION, OS_PRETTY_NAME, BASE_URL, BCI_DEVEL_REPO, containers,
          groups, test, tpc, t>>

catalogVars == <<environ, arch, DOCKER_SELECTED, pc, OS_VERSION,
                 OS_MAJOR_VERSION, OS_SP_VERSION, OS_PRETTY_NAME, BASE_URL,
                 BCI_DEVEL_REPO, containers, groups>>

testVars == <<test, tpc, t>>

(***************************************************************************)
(* Bounds of the model.                                                    *)
(***************************************************************************)
\* service packs 15.0 .. 15.MaxSP are offered as OS_VERSION
MaxSP == 7
\* images of up to MaxOver MiB above the largest ceiling are offered
MaxOver == 1
\* a command exits with a code in 0 .. MaxExit
MaxExit == 2

(***************************************************************************)
(* Python built-ins used by data.py and test_base.py.                      *)
(***************************************************************************)
Char(s, i) == SubSeq(s, i, i)

Range(f) == {f[i] : i \in DOMAIN f}

SetMin(S) == CHOOSE m \in S : \A n \in S : m <= n

SetMax(S) == CHOOSE m \in S : \A n \in S : m >= n

\* str.split(sep) for a one-character separator
RECURSIVE Split(_, _)
Split(s, sep) ==
    LET at == {i \in 1..Len(s) : Char(s, i) = sep}
    IN  IF at = {} THEN <<s>>
        ELSE <<SubSeq(s, 1, SetMin(at) - 1)>>
             \o Split(SubSeq(s, SetMin(at) + 1, Len(s)), sep)

\* str.rpartition(sep)[2]: what follows the last separator, or all of s
RPartitionTail(s, sep) ==
    LET at == {i \in 1..Len(s) : Char(s, i) = sep}
    IN  IF at = {} THEN s ELSE SubSeq(s, SetMax(at) + 1, Len(s))

\* str.startswith(prefix)
StartsWith(s, prefix) ==
    /\ Len(prefix) <= Len(s)
    /\ SubSeq(s, 1, Len(prefix)) = prefix

Whitespace == {" ", "\t", "\n", "\r"}

\* str.strip()
Strip(s) ==
    LET keep == {i \in 1..Len(s) : Char(s, i) \notin Whitespace}
    IN  IF keep = {} THEN "" ELSE SubSeq(s, SetMin(keep), SetMax(keep))

Digits == {ToString(d) : d \in 0..9}

DigitVal(c) == CHOOSE d \in 0..9 : ToString(d) = c

RECURSIVE DecimalValue(_)
DecimalValue(s) ==
    IF Len(s) = 0 THEN 0
    ELSE IF Char(s, Len(s)) = "_" THEN DecimalValue(SubSeq(s, 1, Len(s) - 1))
    ELSE 10 * DecimalValue(SubSeq(s, 1, Len(s) - 1)) + DigitVal(Char(s, Len(s)))

\* int(s), base 10: optional surrounding whitespace, optional sign, digits
\* with single underscores between them; anything else is a ValueError
PyInt(s) ==
    LET body   == Strip(s)
        signed == Len(body) > 0 /\ Char(body, 1) \in {"+", "-"}
        digs   == IF signed THEN SubSeq(body, 2, Len(body)) ELSE body
        valid  == /\ Len(digs) > 0
                  /\ \A i \in 1..Len(digs) : Char(digs, i) \in Digits \cup {"_"}
                  /\ Char(digs, 1) # "_"
                  /\ Char(digs, Len(digs)) # "_"
                  /\ \A i \in 1..(Len(digs) - 1) :
                        ~(Char(digs, i) = "_" /\ Char(digs, i + 1) = "_")
    IN  IF ~valid THEN [ok |-> FALSE, val |-> 0]
        ELSE [ok  |-> TRUE,
              val |-> IF signed /\ Char(body, 1) = "-"
                      THEN 0 - DecimalValue(digs) ELSE DecimalValue(digs)]

\* os.getenv(name, default)
GetEnv(name, default) ==
    IF environ[name] = <<>> THEN default ELSE environ[name][1]

(***************************************************************************)
(* pytest_container's descriptor types, as data.py constructs them.        *)
(***************************************************************************)
\* Container(url=..., extra_launch_args=..., default_entry_point=...)
Container(url, extra_launch_args, default_entry_point) ==
    [kind                |-> "Container",
     url                 |-> url,
     extra_launch_args   |-> extra_launch_args,
     default_entry_point |-> default_entry_point]

\* DerivedContainer(base=..., containerfile=..., **kwargs)
DerivedContainer(base, containerfile, kwargs) ==
    [k \in {"kind", "base", "containerfile"} \cup DOMAIN kwargs |->
        CASE k = "kind"          -> "DerivedContainer"
          [] k = "base"          -> base
          [] k = "containerfile" -> containerfile
          [] OTHER               -> kwargs[k]]

(***************************************************************************)
(* bci_tester/data.py                                                      *)
(***************************************************************************)
DEFAULT_REGISTRY == "registry.suse.de"

\* the image path every descriptor of lines 42-77 and 109-110 spells out
Sp3Images == DEFAULT_REGISTRY \o "/suse/sle-15-sp3/update/cr/totest/images"

\* the globals bound by lines 42-125, in the order of their statements
ContainerOrder ==
    <<"BASE_CONTAINER", "MINIMAL_CONTAINER", "MICRO_CONTAINER",
      "GO_1_16_CONTAINER", "GO_1_17_CONTAINER",
      "OPENJDK_11_CONTAINER", "OPENJDK_DEVEL_11_CONTAINER",
      "NODEJS_12_CONTAINER", "NODEJS_14_CONTAINER",
      "PYTHON36_CONTAINER", "PYTHON39_CONTAINER",
      "DOTNET_SDK_3_1_CONTAINER", "DOTNET_SDK_5_0_CONTAINER",
      "DOTNET_SDK_6_0_CONTAINER",
      "DOTNET_ASPNET_3_1_CONTAINER", "DOTNET_ASPNET_5_0_CONTAINER",
      "DOTNET_ASPNET_6_0_CONTAINER",
      "DOTNET_RUNTIME_3_1_CONTAINER", "DOTNET_RUNTIME_5_0_CONTAINER",
      "DOTNET_RUNTIME_6_0_CONTAINER",
      "INIT_CONTAINER">>

\* the url= argument of each Container(...) of lines 42-110
ContainerUrl(name) ==
    CASE name = "BASE_CONTAINER"    -> Sp3Images \o "/suse/sle15:" \o OS_VERSION
      [] name = "MINIMAL_CONTAINER" -> Sp3Images \o "/bci/minimal:" \o OS_VERSION
      [] name = "MICRO_CONTAINER"   -> Sp3Images \o "/bci/micro:" \o OS_VERSION
      [] name = "GO_1_16_CONTAINER" -> Sp3Images \o "/bci/golang:1.16"
      [] name = "GO_1_17_CONTAINER" -> Sp3Images \o "/bci/golang:1.17"
      [] name = "OPENJDK_11_CONTAINER" -> Sp3Images \o "/bci/openjdk:11"
      [] name = "OPENJDK_DEVEL_11_CONTAINER" ->
            Sp3Images \o "/bci/openjdk-devel:11"
      [] name = "NODEJS_12_CONTAINER" -> Sp3Images \o "/bci/nodejs:12"
      [] name = "NODEJS_14_CONTAINER" -> Sp3Images \o "/bci/nodejs:14"
      [] name = "PYTHON36_CONTAINER"  -> Sp3Images \o "/bci/python:3.6"
      [] name = "PYTHON39_CONTAINER"  -> Sp3Images \o "/bci/python:3.9"
      [] name = "DOTNET_SDK_3_1_CONTAINER" -> BASE_URL \o "/bci/dotnet-sdk:3.1"
      [] name = "DOTNET_SDK_5_0_CONTAINER" -> BASE_URL \o "/bci/dotnet-sdk:5.0"
      [] name = "DOTNET_SDK_6_0_CONTAINER" -> BASE_URL \o "/bci/dotnet-sdk:6.0"
      [] name = "DOTNET_ASPNET_3_1_CONTAINER" ->
            BASE_URL \o "/bci/dotnet-aspnet:3.1"
      [] name = "DOTNET_ASPNET_5_0_CONTAINER" ->
            BASE_URL \o "/bci/dotnet-aspnet:5.0"
      [] name = "DOTNET_ASPNET_6_0_CONTAINER" ->
            BASE_URL \o "/bci/dotnet-aspnet:6.0"
      [] name = "DOTNET_RUNTIME_3_1_CONTAINER" ->
            BASE_URL \o "/bci/dotnet-runtime:3.1"
      [] name = "DOTNET_RUNTIME_5_0_CONTAINER" ->
            BASE_URL \o "/bci/dotnet-runtime:5.0"
      [] name = "DOTNET_RUNTIME_6_0_CONTAINER" ->
            BASE_URL \o "/bci/dotnet-runtime:6.0"
      [] name = "INIT_CONTAINER" -> Sp3Images \o "/bci/init:15.3"

\* extra_launch_args of INIT_CONTAINER (lines 111-123)
InitLaunchArgs ==
    IF DOCKER_SELECTED
    THEN <<"--privileged", "--tmpfs", "/tmp", "--tmpfs", "/run", "-v",
           "/sys/fs/cgroup:/sys/fs/cgroup:ro,z", "-e", "container=docker">>
    ELSE <<>>

\* the Container(...) expression bound to `name` by lines 42-125
NewContainer(name) ==
    IF name = "INIT_CONTAINER"
    THEN Container(ContainerUrl(name), InitLaunchArgs, TRUE)
    ELSE Container(ContainerUrl(name), <<>>, FALSE)

\* a mapping extended or rebound at one key
Bind(f, name, value) ==
    [k \in DOMAIN f \cup {name} |-> IF k = name THEN value ELSE f[k]]

\* line 17
ReadOsVersion ==
    /\ pc = "l17"
    /\ OS_VERSION' = GetEnv("OS_VERSION", "15.3")
    /\ pc' = "l19"
    /\ UNCHANGED <<environ, arch, DOCKER_SELECTED, OS_MAJOR_VERSION,
                   OS_SP_VERSION, OS_PRETTY_NAME, BASE_URL, BCI_DEVEL_REPO,
                   containers, groups, testVars>>

\* line 19: the generator of int(ver) unpacked into exactly two targets; a
\* component that is no integer, and a count other than two, both raise
\* ValueError
ParseOsVersion ==
    /\ pc = "l19"
    /\ LET parts == Split(OS_VERSION, ".")
           ok    == /\ Len(parts) = 2
                    /\ PyInt(parts[1]).ok
                    /\ PyInt(parts[2]).ok
       IN  IF ok
           THEN /\ OS_MAJOR_VERSION' = PyInt(parts[1]).val
                /\ OS_SP_VERSION' = PyInt(parts[2]).val
                /\ pc' = "l22"
           ELSE /\ pc' = "ValueError"
                /\ UNCHANGED <<OS_MAJOR_VERSION, OS_SP_VERSION>>
    /\ UNCHANGED <<environ, arch, DOCKER_SELECTED, OS_VERSION, OS_PRETTY_NAME,
                   BASE_URL, BCI_DEVEL_REPO, containers, groups, testVars>>

\* lines 22-25
ReadPrettyName ==
    /\ pc = "l22"
    /\ OS_PRETTY_NAME' =
          GetEnv("OS_PRETTY_NAME",
                 "SUSE Linux Enterprise Server " \o ToString(OS_MAJOR_VERSION)
                    \o " SP" \o ToString(OS_SP_VERSION))
    /\ pc' = "l34"
    /\ UNCHANGED <<environ, arch, DOCKER_SELECTED, OS_VERSION,
                   OS_MAJOR_VERSION, OS_SP_VERSION, BASE_URL, BCI_DEVEL_REPO,
                   containers, groups, testVars>>

MajorSupported_AtLeast(major) == major >= 15

\* the condition asserted by lines 34-36
MajorSupported(major) == major = 15

\* lines 34-36
AssertMajorVersion ==
    /\ pc = "l34"
    /\ pc' = IF MajorSupported(OS_MAJOR_VERSION) THEN "l39" ELSE "AssertionError"
    /\ UNCHANGED <<environ, arch, DOCKER_SELECTED, OS_VERSION,
                   OS_MAJOR_VERSION, OS_SP_VERSION, OS_PRETTY_NAME, BASE_URL,
                   BCI_DEVEL_REPO, containers, groups, testVars>>

\* line 39
SetBaseUrl ==
    /\ pc = "l39"
    /\ BASE_URL' = DEFAULT_REGISTRY \o "/suse/sle-" \o ToString(OS_MAJOR_VERSION)
                      \o "-sp" \o ToString(OS_SP_VERSION)
                      \o "/update/cr/totest/images"
    /\ pc' = "l42"
    /\ UNCHANGED <<environ, arch, DOCKER_SELECTED, OS_VERSION,
                   OS_MAJOR_VERSION, OS_SP_VERSION, OS_PRETTY_NAME,
                   BCI_DEVEL_REPO, containers, groups, testVars>>

\* lines 42-125: the next of the twenty-one NAME = Container(...) statements
DefineContainer ==
    /\ pc = "l42"
    /\ LET k    == Cardinality(DOMAIN containers) + 1
           name == ContainerOrder[k]
       IN  /\ containers' = Bind(containers, name, NewContainer(name))
           /\ pc' = IF k = Len(ContainerOrder) THEN "l140" ELSE "l42"
    /\ UNCHANGED <<environ, arch, DOCKER_SELECTED, OS_VERSION,
                   OS_MAJOR_VERSION, OS_SP_VERSION, OS_PRETTY_NAME, BASE_URL,
                   BCI_DEVEL_REPO, groups, testVars>>

\* line 140
ReadDevelRepo ==
    /\ pc = "l140"
    /\ BCI_DEVEL_REPO' = environ["BCI_DEVEL_REPO"]
    /\ pc' = "l141"
    /\ UNCHANGED <<environ, arch, DOCKER_SELECTED, OS_VERSION,
                   OS_MAJOR_VERSION, OS_SP_VERSION, OS_PRETTY_NAME, BASE_URL,
                   containers, groups, testVars>>

\* lines 141-142: no override, the released repository of the host's arch
DefaultDevelRepo ==
    /\ pc = "l141"
    /\ BCI_DEVEL_REPO = <<>>
    /\ BCI_DEVEL_REPO' =
          <<"https://updates.suse.com/SUSE/Products/SLE-BCI/15-SP3/"
               \o arch \o "/product/">>
    /\ pc' = "l196"
    /\ UNCHANGED <<environ, arch, DOCKER_SELECTED, OS_VERSION,
                   OS_MAJOR_VERSION, OS_SP_VERSION, OS_PRETTY_NAME, BASE_URL,
                   containers, groups, testVars>>

\* line 144
REPLACE_REPO_CONTAINERFILE(repo) ==
    "RUN sed -i 's|baseurl.*|baseurl=" \o repo
       \o "|' /etc/zypp/repos.d/SLE_BCI.repo"

RepoContainers_WithMinimal ==
    <<"BASE_CONTAINER", "MINIMAL_CONTAINER", "GO_1_16_CONTAINER",
      "GO_1_17_CONTAINER",
      "OPENJDK_11_CONTAINER", "OPENJDK_DEVEL_11_CONTAINER",
      "NODEJS_12_CONTAINER", "NODEJS_14_CONTAINER",
      "PYTHON36_CONTAINER", "PYTHON39_CONTAINER",
      "DOTNET_SDK_3_1_CONTAINER", "DOTNET_SDK_5_0_CONTAINER",
      "DOTNET_SDK_6_0_CONTAINER",
      "DOTNET_ASPNET_3_1_CONTAINER", "DOTNET_ASPNET_5_0_CONTAINER",
      "DOTNET_ASPNET_6_0_CONTAINER",
      "DOTNET_RUNTIME_3_1_CONTAINER", "DOTNET_RUNTIME_5_0_CONTAINER",
      "DOTNET_RUNTIME_6_0_CONTAINER",
      "INIT_CONTAINER">>

\* lines 146-165 and 172-192: the globals rebound by the override
RepoContainers ==
    <<"BASE_CONTAINER", "GO_1_16_CONTAINER", "GO_1_17_CONTAINER",
      "OPENJDK_11_CONTAINER", "OPENJDK_DEVEL_11_CONTAINER",
      "NODEJS_12_CONTAINER", "NODEJS_14_CONTAINER",
      "PYTHON36_CONTAINER", "PYTHON39_CONTAINER",
      "DOTNET_SDK_3_1_CONTAINER", "DOTNET_SDK_5_0_CONTAINER",
      "DOTNET_SDK_6_0_CONTAINER",
      "DOTNET_ASPNET_3_1_CONTAINER", "DOTNET_ASPNET_5_0_CONTAINER",
      "DOTNET_ASPNET_6_0_CONTAINER",
      "DOTNET_RUNTIME_3_1_CONTAINER", "DOTNET_RUNTIME_5_0_CONTAINER",
      "DOTNET_RUNTIME_6_0_CONTAINER",
      "INIT_CONTAINER">>

DeriveWithRepo_DefaultArgs(cont, containerfile) ==
    DerivedContainer(cont.url, containerfile,
                     [extra_launch_args |-> <<>>,
                      default_entry_point |-> cont.default_entry_point])

\* lines 167-171: every attribute of cont.__dict__ but url is passed on
DeriveWithRepo(cont, containerfile) ==
    DerivedContainer(cont.url, containerfile,
                     [k \in DOMAIN cont \ {"kind", "url"} |-> cont[k]])

\* lines 143-193: the override is set, every repository-bearing global is
\* rebound to a DerivedContainer over its former url
ReplaceRepo ==
    /\ pc = "l141"
    /\ BCI_DEVEL_REPO # <<>>
    /\ LET containerfile == REPLACE_REPO_CONTAINERFILE(BCI_DEVEL_REPO[1])
       IN  containers' =
              [n \in DOMAIN containers |->
                  IF n \in Range(RepoContainers)
                  THEN DeriveWithRepo(containers[n], containerfile)
                  ELSE containers[n]]
    /\ pc' = "l196"
    /\ UNCHANGED <<environ, arch, DOCKER_SELECTED, OS_VERSION,
                   OS_MAJOR_VERSION, OS_SP_VERSION, OS_PRETTY_NAME, BASE_URL,
                   BCI_DEVEL_REPO, groups, testVars>>

\* lines 196-209
DefineRepoclosure ==
    /\ pc = "l196"
    /\ containers' =
          Bind(containers, "REPOCLOSURE_CONTAINER",
               DerivedContainer(
                  "registry.fedoraproject.org/fedora:latest",
                  "RUN dnf -y install 'dnf-command(repoclosure)'\n"
                     \o "RUN rm -f /etc/yum.repos.d/*repo\n"
                     \o "RUN echo $'[SLE_BCI] \\n\\\n"
                     \o "enabled=1 \\n\\\n"
                     \o "name=\"SLE BCI\" \\n\\\n"
                     \o "autorefresh=0 \\n\\\n"
                     \o "baseurl=" \o BCI_DEVEL_REPO[1] \o " \\n\\\n"
                     \o "priority=100' > /etc/yum.repos.d/SLE_BCI.repo\n",
                  <<>>))
    /\ pc' = "l211"
    /\ UNCHANGED <<environ, arch, DOCKER_SELECTED, OS_VERSION,
                   OS_MAJOR_VERSION, OS_SP_VERSION, OS_PRETTY_NAME, BASE_URL,
                   BCI_DEVEL_REPO, groups, testVars>>

\* [containers[n] for n in names]
ListOf(names) == [i \in 1..Len(names) |-> containers[names[i]]]

\* lines 211-221
DefineDotnetContainers ==
    /\ pc = "l211"
    /\ groups' =
          Bind(groups, "DOTNET_CONTAINERS",
               ListOf(<<"DOTNET_SDK_3_1_CONTAINER", "DOTNET_SDK_5_0_CONTAINER",
                        "DOTNET_SDK_6_0_CONTAINER",
                        "DOTNET_ASPNET_3_1_CONTAINER",
                        "DOTNET_ASPNET_5_0_CONTAINER",
                        "DOTNET_ASPNET_6_0_CONTAINER",
                        "DOTNET_RUNTIME_3_1_CONTAINER",
                        "DOTNET_RUNTIME_5_0_CONTAINER",
                        "DOTNET_RUNTIME_6_0_CONTAINER">>))
    /\ pc' = "l222"
    /\ UNCHANGED <<environ, arch, DOCKER_SELECTED, OS_VERSION,
                   OS_MAJOR_VERSION, OS_SP_VERSION, OS_PRETTY_NAME, BASE_URL,
                   BCI_DEVEL_REPO, containers, testVars>>

DotnetSupported_Inverted(a) == a # "x86_64"

\* the condition of line 233
DotnetSupported(a) == a = "x86_64"

\* lines 222-233
DefineContainersWithZypper ==
    /\ pc = "l222"
    /\ groups' =
          Bind(groups, "CONTAINERS_WITH_ZYPPER",
               ListOf(<<"BASE_CONTAINER", "GO_1_16_CONTAINER",
                        "GO_1_17_CONTAINER", "OPENJDK_11_CONTAINER",
                        "OPENJDK_DEVEL_11_CONTAINER", "NODEJS_12_CONTAINER",
                        "NODEJS_14_CONTAINER", "PYTHON36_CONTAINER",
                        "PYTHON39_CONTAINER", "INIT_CONTAINER">>)
               \o (IF DotnetSupported(arch)
                   THEN groups["DOTNET_CONTAINERS"] ELSE <<>>))
    /\ pc' = "l235"
    /\ UNCHANGED <<environ, arch, DOCKER_SELECTED, OS_VERSION,
                   OS_MAJOR_VERSION, OS_SP_VERSION, OS_PRETTY_NAME, BASE_URL,
                   BCI_DEVEL_REPO, containers, testVars>>

\* lines 235-238
DefineContainersWithoutZypper ==
    /\ pc = "l235"
    /\ groups' = Bind(groups, "CONTAINERS_WITHOUT_ZYPPER",
                      ListOf(<<"MINIMAL_CONTAINER", "MICRO_CONTAINER">>))
    /\ pc' = "l241"
    /\ UNCHANGED <<environ, arch, DOCKER_SELECTED, OS_VERSION,
                   OS_MAJOR_VERSION, OS_SP_VERSION, OS_PRETTY_NAME, BASE_URL,
                   BCI_DEVEL_REPO, containers, testVars>>

\* lines 241-243
DefineAllContainers ==
    /\ pc = "l241"
    /\ groups' = Bind(groups, "ALL_CONTAINERS",
                      groups["CONTAINERS_WITH_ZYPPER"]
                         \o groups["CONTAINERS_WITHOUT_ZYPPER"])
    /\ pc' = "done"
    /\ UNCHANGED <<environ, arch, DOCKER_SELECTED, OS_VERSION,
                   OS_MAJOR_VERSION, OS_SP_VERSION, OS_PRETTY_NAME, BASE_URL,
                   BCI_DEVEL_REPO, containers, testVars>>

\* the twelve statements of data.py, in order
CatalogNext ==
    \/ ReadOsVersion
    \/ ParseOsVersion
    \/ ReadPrettyName
    \/ AssertMajorVersion
    \/ SetBaseUrl
    \/ DefineContainer
    \/ ReadDevelRepo
    \/ DefaultDevelRepo
    \/ ReplaceRepo
    \/ DefineRepoclosure
    \/ DefineDotnetContainers
    \/ DefineContainersWithZypper
    \/ DefineContainersWithoutZypper
    \/ DefineAllContainers

\* the values of OS_VERSION offered to data.py
OsVersionInputs ==
    {"15." \o ToString(n) : n \in 0..MaxSP}
       \cup {"16.0", "12.5", "150.3", "015.3", "15", "15.3.1", "15.", "15.x",
             "tumbleweed", ""}

\* the host architectures the tests are run on, and one no table lists
ArchInputs == {"x86_64", "aarch64", "ppc64le", "s390x", "riscv64"}

\* the host architectures data.py is imported on
CatalogArchInputs == {"x86_64", "aarch64", "s390x"}

RepoInputs == {<<>>, <<"http://example/repo/">>, <<"">>}

NoTest == [outcome |-> "none"]

CatalogInit ==
    /\ environ \in [OS_VERSION     : {<<>>} \cup {<<v>> : v \in OsVersionInputs},
                    OS_PRETTY_NAME : {<<>>, <<"SLES 15">>},
                    BCI_DEVEL_REPO : RepoInputs]
    /\ arch \in CatalogArchInputs
    /\ DOCKER_SELECTED \in BOOLEAN
    /\ pc = "l17"
    /\ OS_VERSION = ""
    /\ OS_MAJOR_VERSION = 0
    /\ OS_SP_VERSION = 0
    /\ OS_PRETTY_NAME = ""
    /\ BASE_URL = ""
    /\ BCI_DEVEL_REPO = <<>>
    /\ containers = <<>>
    /\ groups = <<>>
    /\ test = "none"
    /\ tpc = "idle"
    /\ t = NoTest

Init == CatalogInit

Next == CatalogNext

Spec == Init /\ [][Next]_vars

(***************************************************************************)
(* bci_tester/fips.py, imported by test_base.py lines 18-21.               *)
(***************************************************************************)
\* digests openssl refuses in FIPS mode
NONFIPS_DIGESTS == <<"blake2b512", "blake2s256", "md5", "rmd160", "sm3">>

\* the FIPS-approved digests
FIPS_DIGESTS ==
    <<"sha1", "sha224", "sha256", "sha3-224", "sha3-256", "sha3-384",
      "sha3-512", "sha384", "sha512", "sha512-224", "sha512-256",
      "shake128", "shake256">>

\* the full digest list
ALL_DIGESTS == NONFIPS_DIGESTS \o FIPS_DIGESTS

(***************************************************************************)
(* tests/test_base.py                                                      *)
(***************************************************************************)
\* str.join
RECURSIVE Join(_, _)
Join(words, sep) ==
    IF Len(words) = 0 THEN ""
    ELSE IF Len(words) = 1 THEN words[1]
    ELSE words[1] \o sep \o Join(Tail(words), sep)

\* str.split() without separator: the runs of non-whitespace characters
RECURSIVE SplitWhitespace(_)
SplitWhitespace(s) ==
    LET body == Strip(s)
        ws   == {i \in 1..Len(body) : Char(body, i) \in Whitespace}
    IN  IF Len(body) = 0 THEN <<>>
        ELSE IF ws = {} THEN <<body>>
        ELSE <<SubSeq(body, 1, SetMin(ws) - 1)>>
             \o SplitWhitespace(SubSeq(body, SetMin(ws) + 1, Len(body)))

\* an inner local of a test set to a new value
Set(rec, field, value) == [rec EXCEPT ![field] = value]

\* lines 64-69: falsy for a missing or empty baseurl
IsFipsCtr(baseurl) ==
    /\ baseurl # <<>>
    /\ baseurl[1] # ""
    /\ StartsWith(RPartitionTail(baseurl[1], "/"), "bci-base-fips")

SizeTable_Typo(os_version, is_fips_ctr) ==
    IF os_version \in {"basalt", "tumbleweed"} \/ is_fips_ctr
    THEN [x86_64 |-> 123, aarch64 |-> 158, ppc64le |-> 179, s390x |-> 136]
    ELSE IF os_version \in {"15.6"}
    THEN [x86_64 |-> 139, aarch64 |-> 160, ppc64le |-> 184, s390x |-> 141]
    ELSE IF os_version \in {"15.4", "15.5"}
    THEN [x86_64 |-> 124, aarch64 |-> 143, ppc64le |-> 165, s390x |-> 127]
    ELSE [x86_64 |-> 120, aarch64 |-> 140, ppc64le |-> 160, s390x |-> 125]

SizeTable_MissingArch(os_version, is_fips_ctr) ==
    IF os_version \in {"basalt", "tumbleweed"} \/ is_fips_ctr
    THEN [x86_64 |-> 132, aarch64 |-> 158, ppc64le |-> 179, s390x |-> 136]
    ELSE IF os_version \in {"15.6"}
    THEN [x86_64 |-> 139, aarch64 |-> 160, ppc64le |-> 184]
    ELSE IF os_version \in {"15.4", "15.5"}
    THEN [x86_64 |-> 124, aarch64 |-> 143, ppc64le |-> 165, s390x |-> 127]
    ELSE [x86_64 |-> 120, aarch64 |-> 140, ppc64le |-> 160, s390x |-> 125]

\* lines 73-100: base_container_max_size, MiB per architecture
SizeTable(os_version, is_fips_ctr) ==
    IF os_version \in {"basalt", "tumbleweed"} \/ is_fips_ctr
    THEN [x86_64 |-> 132, aarch64 |-> 158, ppc64le |-> 179, s390x |-> 136]
    ELSE IF os_version \in {"15.6"}
    THEN [x86_64 |-> 139, aarch64 |-> 160, ppc64le |-> 184, s390x |-> 141]
    ELSE IF os_version \in {"15.4", "15.5"}
    THEN [x86_64 |-> 124, aarch64 |-> 143, ppc64le |-> 165, s390x |-> 127]
    ELSE [x86_64 |-> 120, aarch64 |-> 140, ppc64le |-> 160, s390x |-> 125]

MiB == 1024 * 1024

\* the marks of lines 53-56 and 111-114: the test is deselected before any
\* container is started
SkipMarked ==
    CASE test = "test_base_size"      -> ~t.PODMAN_SELECTED
      [] test = "test_openssl_hashes" -> t.host_fips \/ t.target_fips
      [] OTHER                        -> FALSE

\* a skipif mark holds: the test is reported skipped
SkipTest ==
    /\ tpc = "collected"
    /\ SkipMarked
    /\ tpc' = "skipped"
    /\ t' = Set(t, "outcome", "skipped")
    /\ UNCHANGED <<catalogVars, test>>

\* the container fixture hands the test a running container
StartContainer ==
    /\ tpc = "collected"
    /\ ~SkipMarked
    /\ tpc' = CASE test = "test_base_size"                -> "l64"
                [] test = "test_openssl_hashes"           -> "l143"
                [] test = "test_all_openssl_hashes_known" -> "l159"
    /\ t' = Set(t, "container", "running")
    /\ UNCHANGED <<catalogVars, test>>

\* ---- test_base_size ----------------------------------------------------
\* lines 64-69
ComputeIsFipsCtr ==
    /\ tpc = "l64"
    /\ t' = Set(t, "is_fips_ctr", IsFipsCtr(t.baseurl))
    /\ tpc' = "l73"
    /\ UNCHANGED <<catalogVars, test>>

\* lines 73-100
SelectSizeTable ==
    /\ tpc = "l73"
    /\ t' = Set(t, "base_container_max_size",
                <<SizeTable(t.OS_VERSION, t.is_fips_ctr)>>)
    /\ tpc' = "l101"
    /\ UNCHANGED <<catalogVars, test>>

\* lines 101-103: the runtime reports the image size in bytes
GetImageSize ==
    /\ tpc = "l101"
    /\ \E mib \in 119..(184 + MaxOver), rest \in {0, MiB - 1} :
          t' = Set(t, "container_size", (mib * MiB + rest) \div MiB)
    /\ tpc' = "l104"
    /\ UNCHANGED <<catalogVars, test>>

\* line 104: indexing the table by an architecture it does not list raises
LookupMaxSize ==
    /\ tpc = "l104"
    /\ LET table == t.base_container_max_size[1]
       IN  IF t.arch \in DOMAIN table
           THEN /\ t' = Set(t, "max_container_size", <<table[t.arch]>>)
                /\ tpc' = "l105"
           ELSE /\ t' = [t EXCEPT !.raised = "KeyError", !.outcome = "failed"]
                /\ tpc' = "failed"
    /\ UNCHANGED <<catalogVars, test>>

\* lines 105-108
AssertSize ==
    /\ tpc = "l105"
    /\ IF t.container_size <= t.max_container_size[1]
       THEN /\ t' = Set(t, "outcome", "passed")
            /\ tpc' = "passed"
       ELSE /\ t' = [t EXCEPT !.raised = "AssertionError",
                              !.outcome = "failed"]
            /\ tpc' = "failed"
    /\ UNCHANGED <<catalogVars, test>>

\* ---- test_openssl_hashes -----------------------------------------------
\* line 144, the command: the next digest of ALL_DIGESTS runs in the container
RunDigest ==
    /\ tpc = "l143"
    /\ Len(t.executed) < Len(ALL_DIGESTS)
    /\ \E rc \in 0..MaxExit :
          t' = Set(t, "executed",
                   Append(t.executed,
                          [command |-> "openssl "
                                          \o ALL_DIGESTS[Len(t.executed) + 1]
                                          \o " /dev/null",
                           rc      |-> rc]))
    /\ tpc' = "l144"
    /\ UNCHANGED <<catalogVars, test>>

ExitExpected_OneToo(rc) == rc \in {0, 1}

\* run_expect([0], ...): the exit status the command must have
ExitExpected(rc) == rc \in {0}

\* line 144, run_expect's check of the exit status, and the loop of line 143
ExpectDigestExit ==
    /\ tpc = "l144"
    /\ IF ~ExitExpected(t.executed[Len(t.executed)].rc)
       THEN /\ t' = [t EXCEPT !.raised = "AssertionError",
                              !.outcome = "failed"]
            /\ tpc' = "failed"
       ELSE IF Len(t.executed) = Len(ALL_DIGESTS)
       THEN /\ t' = Set(t, "outcome", "passed")
            /\ tpc' = "passed"
       ELSE /\ tpc' = "l143"
            /\ UNCHANGED t
    /\ UNCHANGED <<catalogVars, test>>

\* ---- test_all_openssl_hashes_known -------------------------------------
\* what `openssl list --digest-commands` may print
DigestListings ==
    {Join(ALL_DIGESTS, " ") \o "\n",
     Join(ALL_DIGESTS \o <<"gost">>, " ") \o "\n",
     Join(<<"gost">> \o ALL_DIGESTS, "\n") \o "\n",
     Join(FIPS_DIGESTS, " ") \o "\n",
     Join(FIPS_DIGESTS \o <<"gost">>, "  ") \o "\n",
     Join(FIPS_DIGESTS \o <<"sha1">>, " "),
     Join(Tail(ALL_DIGESTS) \o <<"md4">>, " ") \o "\n",
     ""}

\* lines 159-165
ListDigestCommands ==
    /\ tpc = "l159"
    /\ \E rc \in 0..MaxExit, stdout \in DigestListings :
          IF ExitExpected(rc)
          THEN /\ t' = Set(t, "hashes", SplitWhitespace(Strip(stdout)))
               /\ tpc' = "l166"
          ELSE /\ t' = [t EXCEPT !.raised = "AssertionError",
                                 !.outcome = "failed"]
               /\ tpc' = "failed"
    /\ UNCHANGED <<catalogVars, test>>

FipsNarrowing_Always(os_version, host_fips, target_fips) ==
    os_version \in {"basalt", "tumbleweed", "15.6"}

FipsNarrowing_Both(os_version, host_fips, target_fips) ==
    /\ os_version \in {"basalt", "tumbleweed", "15.6"}
    /\ host_fips /\ target_fips

\* the conditions of lines 169-170
FipsNarrowing(os_version, host_fips, target_fips) ==
    /\ os_version \in {"basalt", "tumbleweed", "15.6"}
    /\ host_fips \/ target_fips

\* lines 166-171
SelectExpectedDigests ==
    /\ tpc = "l166"
    /\ t' = Set(t, "expected_digest_list",
                IF FipsNarrowing(t.OS_VERSION, t.host_fips, t.target_fips)
                THEN FIPS_DIGESTS ELSE ALL_DIGESTS)
    /\ tpc' = "l175"
    /\ UNCHANGED <<catalogVars, test>>

GostListed_Inverted(os_version) ==
    os_version \in {"basalt", "tumbleweed", "15.6"}

\* the condition of line 175
GostListed(os_version) == os_version \notin {"basalt", "tumbleweed", "15.6"}

\* lines 175-176
AppendGost ==
    /\ tpc = "l175"
    /\ t' = Set(t, "expected_digest_list",
                IF GostListed(t.OS_VERSION)
                THEN t.expected_digest_list \o <<"gost">>
                ELSE t.expected_digest_list)
    /\ tpc' = "l177"
    /\ UNCHANGED <<catalogVars, test>>

\* line 177
AssertDigestCount ==
    /\ tpc = "l177"
    /\ IF Len(t.hashes) = Len(t.expected_digest_list)
       THEN /\ tpc' = "l178"
            /\ UNCHANGED t
       ELSE /\ t' = [t EXCEPT !.raised = "AssertionError",
                              !.outcome = "failed"]
            /\ tpc' = "failed"
    /\ UNCHANGED <<catalogVars, test>>

\* line 178
AssertDigestSet ==
    /\ tpc = "l178"
    /\ IF Range(t.hashes) = Range(t.expected_digest_list)
       THEN /\ t' = Set(t, "outcome", "passed")
            /\ tpc' = "passed"
       ELSE /\ t' = [t EXCEPT !.raised = "AssertionError",
                              !.outcome = "failed"]
            /\ tpc' = "failed"
    /\ UNCHANGED <<catalogVars, test>>

TestNext ==
    \/ SkipTest
    \/ StartContainer
    \/ ComputeIsFipsCtr
    \/ SelectSizeTable
    \/ GetImageSize
    \/ LookupMaxSize
    \/ AssertSize
    \/ RunDigest
    \/ ExpectDigestExit
    \/ ListDigestCommands
    \/ SelectExpectedDigests
    \/ AppendGost
    \/ AssertDigestCount
    \/ AssertDigestSet

\* the values of bci_tester.data.OS_VERSION the tests are run for
TestOsVersions ==
    {"15." \o ToString(n) : n \in 3..MaxSP} \cup {"tumbleweed", "basalt"}

\* container.baseurl of the images the tests are parametrized with
BaseUrlInputs ==
    {<<>>, <<"">>,
     <<"registry.suse.de/suse/sle-15-sp3/update/cr/totest/images/suse/sle15:15.3">>,
     <<"registry.suse.com/suse/ltss/sle15.3/sle15:15.3">>,
     <<"registry.suse.com/suse/ltss/sle15.3/bci-base-fips:15.3">>,
     <<"registry.suse.com/suse/ltss/sle15.4/bci-base-fips:15.4">>,
     <<"registry.suse.com/bci-base-fips/sle15:15.3">>,
     <<"bci-base-fips">>}

TestNames ==
    {"test_base_size", "test_openssl_hashes", "test_all_openssl_hashes_known"}

\* a test about to run: its inputs drawn, its locals unbound
NewTest(os_version, a, baseurl, podman, host_fips, target_fips) ==
    [OS_VERSION              |-> os_version,
     arch                    |-> a,
     baseurl                 |-> baseurl,
     PODMAN_SELECTED         |-> podman,
     host_fips               |-> host_fips,
     target_fips             |-> target_fips,
     container               |-> "not running",
     is_fips_ctr             |-> FALSE,
     base_container_max_size |-> <<>>,
     container_size          |-> 0,
     max_container_size      |-> <<>>,
     executed                |-> <<>>,
     hashes                  |-> <<>>,
     expected_digest_list    |-> <<>>,
     raised                  |-> "",
     outcome                 |-> "none"]

TestInit ==
    /\ environ = [OS_VERSION |-> <<>>, OS_PRETTY_NAME |-> <<>>,
                  BCI_DEVEL_REPO |-> <<>>]
    /\ arch = "x86_64"
    /\ DOCKER_SELECTED = FALSE
    /\ pc = "imported"
    /\ OS_VERSION = ""
    /\ OS_MAJOR_VERSION = 0
    /\ OS_SP_VERSION = 0
    /\ OS_PRETTY_NAME = ""
    /\ BASE_URL = ""
    /\ BCI_DEVEL_REPO = <<>>
    /\ containers = <<>>
    /\ groups = <<>>
    /\ test \in TestNames
    /\ tpc = "collected"
    /\ \E os_version \in TestOsVersions, host_fips \in BOOLEAN,
          target_fips \in BOOLEAN :
          CASE test = "test_base_size" ->
                 \E a \in ArchInputs, baseurl \in BaseUrlInputs,
                    podman \in BOOLEAN :
                    t = NewTest(os_version, a, baseurl, podman, FALSE, FALSE)
            [] test = "test_openssl_hashes" ->
                 t = NewTest(os_version, "x86_64", <<>>, TRUE,
                             host_fips, target_fips)
            [] test = "test_all_openssl_hashes_known" ->
                 \E baseurl \in BaseUrlInputs :
                    t = NewTest(os_version, "x86_64", baseurl, TRUE,
                                host_fips, target_fips)

TestSpec == TestInit /\ [][TestNext]_vars

(***************************************************************************)
(* Properties of the catalog (Spec).                                       *)
(***************************************************************************)
OverrideSet == environ["BCI_DEVEL_REPO"] # <<>>

\* the with-package-manager family, the .NET family and the init image
RepositoryBearing ==
    Range(ContainerOrder) \ {"MINIMAL_CONTAINER", "MICRO_CONTAINER"}

DotnetFamily ==
    {"DOTNET_SDK_3_1_CONTAINER", "DOTNET_SDK_5_0_CONTAINER",
     "DOTNET_SDK_6_0_CONTAINER", "DOTNET_ASPNET_3_1_CONTAINER",
     "DOTNET_ASPNET_5_0_CONTAINER", "DOTNET_ASPNET_6_0_CONTAINER",
     "DOTNET_RUNTIME_3_1_CONTAINER", "DOTNET_RUNTIME_5_0_CONTAINER",
     "DOTNET_RUNTIME_6_0_CONTAINER"}

IsPlainReference(d) == d.kind = "Container"

IsRepoRecipe(d) ==
    /\ OverrideSet
    /\ d.kind = "DerivedContainer"
    /\ d.containerfile =
          "RUN sed -i 's|baseurl.*|baseurl=" \o environ["BCI_DEVEL_REPO"][1]
             \o "|' /etc/zypp/repos.d/SLE_BCI.repo"

C1_Catalog ==
    pc = "done" =>
       /\ \A n \in DOMAIN containers :
             IsRepoRecipe(containers[n])
                <=> (OverrideSet /\ n \in RepositoryBearing)
       /\ \A n \in Range(ContainerOrder) :
             IsRepoRecipe(containers[n]) \/ IsPlainReference(containers[n])
       /\ ~OverrideSet =>
             \A i \in DOMAIN groups["ALL_CONTAINERS"] :
                IsPlainReference(groups["ALL_CONTAINERS"][i])
       /\ IsPlainReference(containers["MINIMAL_CONTAINER"])
       /\ IsPlainReference(containers["MICRO_CONTAINER"])
       /\ (OS_VERSION = "15.3" /\ ~OverrideSet) =>
             containers["BASE_CONTAINER"].url =
                "registry.suse.de/suse/sle-15-sp3/update/cr/totest/images/suse/sle15:15.3"
       /\ (OS_VERSION = "15.3"
             /\ environ["BCI_DEVEL_REPO"] = <<"http://example/repo/">>) =>
             /\ containers["BASE_CONTAINER"].base =
                   "registry.suse.de/suse/sle-15-sp3/update/cr/totest/images/suse/sle15:15.3"
             /\ containers["BASE_CONTAINER"].containerfile =
                   "RUN sed -i 's|baseurl.*|baseurl=http://example/repo/|' /etc/zypp/repos.d/SLE_BCI.repo"

C1_Rewrite ==
    pc = "l141" =>
       \A n \in DOMAIN containers :
          containers'[n].kind = "DerivedContainer"
             => containers'[n].base = containers[n].url

\* C1: once the catalog is built, a descriptor is a build recipe (base = its
\* former remote URL, containerfile = the one sed instruction naming the
\* override) exactly when BCI_DEVEL_REPO is set and the descriptor is
\* repository-bearing; without the override all of ALL_CONTAINERS are plain
\* remote references, and minimal and micro are plain in both cases.
C1_RecipeIffOverrideAndRepositoryBearing ==
    [](C1_Catalog) /\ [][C1_Rewrite]_vars

C1_Witness ==
    /\ pc = "done"
    /\ environ["BCI_DEVEL_REPO"] = <<"http://example/repo/">>
    /\ OS_VERSION = "15.3"
    /\ containers["INIT_CONTAINER"].kind = "DerivedContainer"
    /\ containers["MINIMAL_CONTAINER"].kind = "Container"

NonUrlAttributes(d) == DOMAIN d \ {"kind", "url", "base", "containerfile"}

\* C2: the step that rewrites the repository-bearing descriptors leaves every
\* attribute other than the url / (base, containerfile) pair as it was:
\* the same attributes, with the same values.
C2_RewritePreservesOtherAttributes ==
    [][(pc = "l141" /\ pc' = "l196") =>
          \A n \in RepositoryBearing :
             /\ NonUrlAttributes(containers'[n]) = NonUrlAttributes(containers[n])
             /\ \A k \in NonUrlAttributes(containers[n]) :
                   containers'[n][k] = containers[n][k]]_vars

C2_Witness ==
    /\ pc = "l196"
    /\ DOCKER_SELECTED
    /\ containers["INIT_CONTAINER"].kind = "DerivedContainer"
    /\ Len(containers["INIT_CONTAINER"].extra_launch_args) = 9
    /\ containers["INIT_CONTAINER"].default_entry_point

\* the OS_VERSION data.py works with: the variable, or the default of line 17
RequestedOsVersion ==
    IF environ["OS_VERSION"] = <<>> THEN "15.3" ELSE environ["OS_VERSION"][1]

Sle15Versions == {"15." \o ToString(n) : n \in 0..MaxSP}

OtherMajorVersions == {"16.0", "12.5", "150.3"}

\* C6: for an OS_VERSION of another major version than 15 the construction
\* ends in the assertion of lines 34-36 with no descriptor and no group
\* bound; for every "15.N" it raises nothing and runs to its last statement.
C6_UnsupportedMajorFailsFast ==
    /\ RequestedOsVersion \in OtherMajorVersions =>
          /\ containers = <<>>
          /\ groups = <<>>
          /\ pc \in {"l17", "l19", "l22", "l34", "AssertionError"}
          /\ pc # "AssertionError" => ENABLED Next
    /\ RequestedOsVersion \in Sle15Versions =>
          /\ pc \notin {"ValueError", "AssertionError"}
          /\ pc # "done" => ENABLED Next
    /\ pc \in {"ValueError", "AssertionError"} =>
          containers = <<>> /\ groups = <<>>

C6_Witness ==
    /\ pc = "AssertionError"
    /\ OS_VERSION = "16.0"
    /\ OS_MAJOR_VERSION = 16
    /\ containers = <<>>

\* C7: in the finished catalog each of the nine .NET descriptors is in
\* CONTAINERS_WITH_ZYPPER, and in ALL_CONTAINERS, exactly when the host
\* architecture is x86_64.
C7_DotnetIffX86_64 ==
    pc = "done" =>
       \A n \in DotnetFamily :
          /\ containers[n] \in Range(groups["CONTAINERS_WITH_ZYPPER"])
                <=> arch = "x86_64"
          /\ containers[n] \in Range(groups["ALL_CONTAINERS"])
                <=> arch = "x86_64"

C7_Witness ==
    /\ pc = "done"
    /\ arch = "x86_64"
    /\ Len(groups["CONTAINERS_WITH_ZYPPER"]) = 19
    /\ containers["DOTNET_SDK_6_0_CONTAINER"]
          \in Range(groups["ALL_CONTAINERS"])

(***************************************************************************)
(* Properties of the verification rules (TestSpec).                        *)
(***************************************************************************)
OpenSsl3Versions == {"basalt", "tumbleweed", "15.6"}

SupportedArchs == {"x86_64", "aarch64", "ppc64le", "s390x"}

\* test_all_openssl_hashes_known has computed its expected digest list
DigestLookupDone ==
    /\ test = "test_all_openssl_hashes_known"
    /\ \/ tpc \in {"l177", "l178", "passed"}
       \/ tpc = "failed" /\ Len(t.expected_digest_list) > 0

\* C3, as claimed: with neither FIPS flag set the expected digest list is
\* ALL_DIGESTS in every OS-version bucket.
C3_FullListInEveryBucket ==
    (DigestLookupDone /\ ~t.host_fips /\ ~t.target_fips) =>
       t.expected_digest_list = ALL_DIGESTS

\* C3, amended: with neither FIPS flag set the expected digest list is
\* ALL_DIGESTS in the buckets basalt, tumbleweed and 15.6, and ALL_DIGESTS
\* followed by "gost" in every other bucket.
C3_FullListPlusGostInOlderBuckets ==
    (DigestLookupDone /\ ~t.host_fips /\ ~t.target_fips) =>
       t.expected_digest_list =
          IF t.OS_VERSION \in OpenSsl3Versions
          THEN ALL_DIGESTS ELSE ALL_DIGESTS \o <<"gost">>

C3_Witness ==
    /\ DigestLookupDone
    /\ tpc = "passed"
    /\ ~t.host_fips /\ ~t.target_fips
    /\ t.OS_VERSION = "15.4"
    /\ t.expected_digest_list = ALL_DIGESTS \o <<"gost">>

\* C4: in the buckets basalt, tumbleweed and 15.6, with host FIPS mode or
\* target FIPS enforcement on, the expected digest list is FIPS_DIGESTS:
\* nothing appended, and a strict subset of ALL_DIGESTS.
C4_FipsSubsetInReducedBuckets ==
    (DigestLookupDone /\ t.OS_VERSION \in OpenSsl3Versions
        /\ (t.host_fips \/ t.target_fips)) =>
       /\ t.expected_digest_list = FIPS_DIGESTS
       /\ "gost" \notin Range(t.expected_digest_list)
       /\ Range(t.expected_digest_list) \subseteq Range(ALL_DIGESTS)
       /\ Range(t.expected_digest_list) # Range(ALL_DIGESTS)

C4_Witness ==
    /\ DigestLookupDone
    /\ t.OS_VERSION = "tumbleweed"
    /\ t.host_fips /\ ~t.target_fips
    /\ t.expected_digest_list = FIPS_DIGESTS

\* test_base_size has indexed its table
SizeLookupDone ==
    /\ test = "test_base_size"
    /\ Len(t.max_container_size) = 1

\* C5: test_base_size selects one table, which lists the four supported
\* architectures with a positive limit each; for a supported architecture
\* the lookup yields one positive integer, for any other it raises KeyError
\* and yields no limit.
C5_SizeLookupTotalOnSupportedArchs ==
    test = "test_base_size" =>
       /\ tpc \in {"l101", "l104", "l105", "passed"} =>
             /\ Len(t.base_container_max_size) = 1
             /\ DOMAIN t.base_container_max_size[1] = SupportedArchs
             /\ \A a \in SupportedArchs :
                   /\ t.base_container_max_size[1][a] \in Nat
                   /\ t.base_container_max_size[1][a] > 0
       /\ t.arch \in SupportedArchs =>
             /\ t.raised # "KeyError"
             /\ tpc \in {"l105", "passed"} =>
                   /\ Len(t.max_container_size) = 1
                   /\ t.max_container_size[1] \in Nat
                   /\ t.max_container_size[1] > 0
             /\ tpc = "failed" => SizeLookupDone
       /\ t.arch \notin SupportedArchs =>
             /\ t.max_container_size = <<>>
             /\ tpc \notin {"l105", "passed"}
             /\ tpc = "failed" => t.raised = "KeyError"

C5_Witness ==
    /\ test = "test_base_size"
    /\ tpc = "l105"
    /\ t.OS_VERSION = "15.6"
    /\ t.arch = "s390x"
    /\ ~t.is_fips_ctr
    /\ t.max_container_size = <<141>>

\* C8, as claimed: "gost" is appended to the expected digest list exactly in
\* the openssl-3 buckets (basalt, tumbleweed, 15.6) when neither FIPS flag
\* narrows the list.
C8_GostAppendedInOpenSsl3Buckets ==
    [][(test = "test_all_openssl_hashes_known" /\ tpc = "l175"
          /\ tpc' = "l177") =>
          ((t'.expected_digest_list = t.expected_digest_list \o <<"gost">>)
              <=> (/\ t.OS_VERSION \in OpenSsl3Versions
                   /\ ~(t.host_fips \/ t.target_fips)))]_vars

\* C8, amended: "gost" is appended to the expected digest list exactly in
\* the buckets other than basalt, tumbleweed and 15.6, whatever the FIPS
\* flags; in those three the list is left as it is.
C8_GostAppendedInOlderBuckets ==
    [][(test = "test_all_openssl_hashes_known" /\ tpc = "l175"
          /\ tpc' = "l177") =>
          t'.expected_digest_list =
             IF t.OS_VERSION \in OpenSsl3Versions
             THEN t.expected_digest_list
             ELSE t.expected_digest_list \o <<"gost">>]_vars

C8_Witness ==
    /\ test = "test_all_openssl_hashes_known"
    /\ tpc = "l177"
    /\ t.OS_VERSION = "15.3"
    /\ t.host_fips
    /\ Len(t.expected_digest_list) = Len(ALL_DIGESTS) + 1
    /\ t.expected_digest_list[Len(t.expected_digest_list)] = "gost"

\* how far test_openssl_hashes has come
HashesProgress ==
    CASE tpc = "collected" -> 0
      [] tpc = "l143"      -> 2 * Len(t.executed) + 1
      [] tpc = "l144"      -> 2 * Len(t.executed)
      [] OTHER             -> 2 * Len(ALL_DIGESTS) + 2

C9_State ==
    test = "test_openssl_hashes" =>
       /\ Len(t.executed) <= Len(ALL_DIGESTS)
       /\ \A k \in 1..Len(t.executed) :
             t.executed[k].command = "openssl " \o ALL_DIGESTS[k] \o " /dev/null"
       /\ \A k \in 1..(Len(t.executed) - 1) : t.executed[k].rc = 0
       /\ t.outcome \in {"none", "passed", "failed", "skipped"}
       /\ t.outcome = "passed" =>
             /\ Len(t.executed) = Len(ALL_DIGESTS)
             /\ \A k \in 1..Len(t.executed) : t.executed[k].rc = 0
       /\ t.outcome = "failed" =>
             /\ Len(t.executed) > 0
             /\ t.executed[Len(t.executed)].rc # 0
       /\ t.outcome = "skipped" => (t.host_fips \/ t.target_fips)
       /\ (t.host_fips \/ t.target_fips) =>
             /\ t.executed = <<>>
             /\ t.container = "not running"
             /\ t.outcome \in {"none", "skipped"}
       /\ t.outcome # "none" => ~ENABLED TestNext
       /\ t.outcome = "none" => ENABLED TestNext

\* C9: test_openssl_hashes only moves forward, to one final outcome: the
\* digests of ALL_DIGESTS run in order, each at most once; the first
\* non-zero exit fails the test and nothing runs after it; the test passes
\* only when every digest has exited 0; under host or target FIPS it is
\* skipped and nothing runs at all.
C9_HashesRunOnceInOrderUntilFirstFailure ==
    /\ [](C9_State)
    /\ [][test = "test_openssl_hashes" => HashesProgress' > HashesProgress]_vars

C9_Witness ==
    /\ test = "test_openssl_hashes"
    /\ t.outcome = "failed"
    /\ Len(t.executed) = 3
    /\ t.executed[3].rc = 1

====
